---- MODULE Spec2Model ----
(***************************************************************************)
(* Model of src/app.py, the clinic discount dashboard: a Streamlit script  *)
(* that loads a workbook (one sheet per insurer) through the memoised      *)
(* load_data, narrows the normalized rows with three sidebar filters and   *)
(* renders two KPIs and a band histogram.                                  *)
(*                                                                         *)
(* Text is modelled as a sequence of one-character strings so that         *)
(* strip(), lower(), the substring test `k in c` and Python's string       *)
(* ordering are computed, not assumed.  Discounts are integers (percent).  *)
(***************************************************************************)
EXTENDS Integers, Sequences, FiniteSets, TLC

VARIABLES
    pc,                 \* position of the running script / of the call
    uploaded_file,      \* the sidebar upload, NoFile when nothing is uploaded
    cache,              \* memo of load_data kept by st.cache_data
    sheets_dict,        \* the bundle read by pd.read_excel(sheet_name=None)
    df,                 \* the collection load_data returned
    selected_insurer,
    selected_chi_locs,
    selected_services,
    filtered,
    shown,              \* what the run rendered, in order
    trace,              \* the blocks of the script this run has executed
    raw_cols,           \* header row of the sheet being reconciled
    col_map             \* the rename map built for that sheet

vars == <<pc, uploaded_file, cache, sheets_dict, df, selected_insurer,
          selected_chi_locs, selected_services, filtered, shown, trace,
          raw_cols, col_map>>

-----------------------------------------------------------------------------
(* Python text helpers *)

UpperChars == <<"A","B","C","D","E","F","G","H","I","J","K","L","M",
                "N","O","P","Q","R","S","T","U","V","W","X","Y","Z">>
LowerChars == <<"a","b","c","d","e","f","g","h","i","j","k","l","m",
                "n","o","p","q","r","s","t","u","v","w","x","y","z">>
Whitespace == {" "}
Digits     == <<"0","1","2","3","4","5","6","7","8","9">>

\* str.lower() on one character
UpperSet == {UpperChars[i] : i \in 1..Len(UpperChars)}
LowerOf  == [ch \in UpperSet |->
                LowerChars[CHOOSE i \in 1..Len(UpperChars) : UpperChars[i] = ch]]

LowerChar(ch) == IF ch \in UpperSet THEN LowerOf[ch] ELSE ch

lower(s) == [i \in 1..Len(s) |-> LowerChar(s[i])]

RECURSIVE lstrip(_)
lstrip(s) == IF s # <<>> /\ Head(s) \in Whitespace THEN lstrip(Tail(s)) ELSE s

RECURSIVE rstrip(_)
rstrip(s) ==
    IF s # <<>> /\ s[Len(s)] \in Whitespace
    THEN rstrip(SubSeq(s, 1, Len(s) - 1))
    ELSE s

strip(s) == rstrip(lstrip(s))

\* the Python test `k in c` on two strings
Contains(c, k) ==
    \E i \in 0..(Len(c) - Len(k)) : SubSeq(c, i + 1, i + Len(k)) = k

\* line 37: df.columns = [c.strip().lower() for c in df.columns]
NormalizeColumns(cols) == [i \in 1..Len(cols) |-> lower(strip(cols[i]))]

-----------------------------------------------------------------------------
(* Header reconciliation, lines 40-72 *)

None == <<"None">>      \* Python's None; no header normalizes to it

K_chilocation == <<"c","h","i","l","o","c","a","t","i","o","n">>
K_chi         == <<"c","h","i">>
K_location    == <<"l","o","c","a","t","i","o","n">>
K_servicetype == <<"s","e","r","v","i","c","e","t","y","p","e">>
K_service     == <<"s","e","r","v","i","c","e">>
K_type        == <<"t","y","p","e">>
K_dicount     == <<"d","i","c","o","u","n","t">>
K_discount    == <<"d","i","s","c","o","u","n","t">>
K_disc        == <<"d","i","s","c">>
K_band        == <<"b","a","n","d">>

InCols(name, lower_cols) == \E i \in 1..Len(lower_cols) : lower_cols[i] = name

\* lines 40-44: the first column, in column order, containing every keyword
find_first_contains(lower_cols, keywords) ==
    LET hits == {i \in 1..Len(lower_cols) :
                    \A j \in 1..Len(keywords) : Contains(lower_cols[i], keywords[j])}
    IN  IF hits = {} THEN None
        ELSE lower_cols[CHOOSE i \in hits : \A j \in hits : i <= j]

\* Python's `a or b` on header-or-None values ("" is falsy as well)
Or(a, b) == IF a # None /\ a # <<>> THEN a ELSE b

Truthy(a) == a # None /\ a # <<>>

\* col_map[k] = v
Put(m, k, v) == [x \in (DOMAIN m) \cup {k} |-> IF x = k THEN v ELSE m[x]]

EmptyMap == [x \in {} |-> None]

\* lines 49, 54: the two-step rules of chi_location and service_type
chi_loc_col(lower_cols) ==
    Or(find_first_contains(lower_cols, <<K_chilocation>>),
       find_first_contains(lower_cols, <<K_chi, K_location>>))

svc_col(lower_cols) ==
    Or(find_first_contains(lower_cols, <<K_servicetype>>),
       find_first_contains(lower_cols, <<K_service, K_type>>))

\* disc_col with the substring rule tried before the exact spellings
disc_col_substring_first(lower_cols) ==
    LET found == find_first_contains(lower_cols, <<K_disc>>)
    IN  IF found # None THEN found
        ELSE IF InCols(K_dicount, lower_cols) THEN K_dicount
        ELSE None

\* lines 59-65: exact "dicount", then exact "discount", then first containing "disc"
disc_col(lower_cols) ==
    IF InCols(K_dicount, lower_cols) THEN K_dicount
    ELSE IF InCols(K_discount, lower_cols) THEN K_discount
    ELSE find_first_contains(lower_cols, <<K_disc>>)

\* line 70
band_col(lower_cols) == find_first_contains(lower_cols, <<K_discount, K_band>>)

C_chi_location  == <<"c","h","i","_","l","o","c","a","t","i","o","n">>
C_service_type  == <<"s","e","r","v","i","c","e","_","t","y","p","e">>
C_discount_band == <<"d","i","s","c","o","u","n","t","_","b","a","n","d">>

\* lines 46-72: the rename map, written in the order the code writes it, so a
\* header matched by two rules keeps the canonical name written last
BuildColMap(lower_cols) ==
    LET chi  == chi_loc_col(lower_cols)
        svc  == svc_col(lower_cols)
        disc == disc_col(lower_cols)
        band == band_col(lower_cols)
        m1 == IF Truthy(chi)  THEN Put(EmptyMap, chi, C_chi_location) ELSE EmptyMap
        m2 == IF Truthy(svc)  THEN Put(m1, svc, C_service_type) ELSE m1
        m3 == IF Truthy(disc) THEN Put(m2, disc, K_dicount) ELSE m2
        m4 == IF Truthy(band) THEN Put(m3, band, C_discount_band) ELSE m3
    IN  m4

\* line 75: df.rename(columns=col_map) on the header row
RenameColumns(lower_cols, m) ==
    [i \in 1..Len(lower_cols) |->
        IF lower_cols[i] \in DOMAIN m THEN m[lower_cols[i]] ELSE lower_cols[i]]

-----------------------------------------------------------------------------
(* Cells and rows *)

\* A spreadsheet cell: empty (NaN/None), a number, or text.
Null   == [t |-> "null", n |-> 0, s |-> <<>>]
Num(x) == [t |-> "num",  n |-> x, s |-> <<>>]
Str(x) == [t |-> "str",  n |-> 0, s |-> x]

DigitSet == {Digits[i] : i \in 1..Len(Digits)}

DigitVal(ch) == (CHOOSE i \in 1..Len(Digits) : Digits[i] = ch) - 1

IsDigits(s) == s # <<>> /\ \A i \in 1..Len(s) : s[i] \in DigitSet

RECURSIVE ParseDigits(_)
ParseDigits(s) ==
    IF s = <<>> THEN 0
    ELSE 10 * ParseDigits(SubSeq(s, 1, Len(s) - 1)) + DigitVal(s[Len(s)])

\* line 91: pd.to_numeric(errors="coerce") on one cell: a number stays, text
\* that reads as a number is parsed, anything else becomes NaN
to_numeric(cell) ==
    LET text == strip(cell.s)
    IN  IF cell.t = "num" THEN cell
        ELSE IF cell.t = "str" /\ IsDigits(text) THEN Num(ParseDigits(text))
        ELSE Null

\* notna that lets every cell through
notna_always(cell) == TRUE

\* Series.notna() on one cell
notna(cell) == cell.t # "null"

\* df["name"] on one row: the cell under the column of that name
FirstIndex(cols, name) ==
    CHOOSE i \in 1..Len(cols) : cols[i] = name /\ \A j \in 1..(i - 1) : cols[j] # name

\* lines 82-88: the cell of a kept field, None when the column was synthesized
FieldCell(cols, row, name) ==
    IF InCols(name, cols) THEN row[FirstIndex(cols, name)] ELSE Null

K_insurer == <<"i","n","s","u","r","e","r">>

\* NormalizeRow that takes the insurer from the sheet's own insurer column
NormalizeRow_from_cell(cols, row, sheet_name) ==
    [chi_location  |-> FieldCell(cols, row, C_chi_location),
     service_type  |-> FieldCell(cols, row, C_service_type),
     dicount       |-> to_numeric(FieldCell(cols, row, K_dicount)),
     discount_band |-> FieldCell(cols, row, C_discount_band),
     insurer       |-> IF InCols(K_insurer, cols)
                       THEN row[FirstIndex(cols, K_insurer)]
                       ELSE sheet_name]

\* lines 82-95 on one row of a kept sheet
NormalizeRow(cols, row, sheet_name) ==
    [chi_location  |-> FieldCell(cols, row, C_chi_location),
     service_type  |-> FieldCell(cols, row, C_service_type),
     dicount       |-> to_numeric(FieldCell(cols, row, K_dicount)),
     discount_band |-> FieldCell(cols, row, C_discount_band),
     insurer       |-> sheet_name]

RECURSIVE SelectRows(_, _, _)
\* line 92: df[df["dicount"].notna()], rows kept in order
SelectRows(cols, rows, sheet_name) ==
    IF rows = <<>> THEN <<>>
    ELSE LET r == NormalizeRow(cols, Head(rows), sheet_name)
         IN  (IF notna(r.dicount) THEN <<r>> ELSE <<>>)
             \o SelectRows(cols, Tail(rows), sheet_name)

\* line 33: df.empty, a frame with no row or no column
IsEmptyFrame(table) == Len(table.columns) = 0 \/ Len(table.rows) = 0

\* lines 36-75 on one sheet: the header row after normalisation and renaming
RenamedColumns(table) ==
    LET lower_cols == NormalizeColumns(table.columns)
    IN  RenameColumns(lower_cols, BuildColMap(lower_cols))

\* lines 33-34 and 77-79: the sheet contributes no frame to all_dfs
SheetSkipped(sheet) ==
    IsEmptyFrame(sheet.table) \/ ~InCols(K_dicount, RenamedColumns(sheet.table))

\* lines 32-97, one iteration: the frame appended to all_dfs
SheetFrame(sheet) == SelectRows(RenamedColumns(sheet.table), sheet.table.rows, sheet.name)

RECURSIVE load_data_break(_)
\* load_data that stops at the first skipped sheet instead of passing over it
load_data_break(bundle) ==
    IF bundle = <<>> THEN <<>>
    ELSE IF SheetSkipped(Head(bundle)) THEN <<>>
    ELSE SheetFrame(Head(bundle)) \o load_data_break(Tail(bundle))

RECURSIVE load_data(_)
\* lines 20-102: pd.concat over the kept sheets in dict order; an empty
\* sequence stands for both pd.DataFrame() and a concat without rows
load_data(bundle) ==
    IF bundle = <<>> THEN <<>>
    ELSE (IF SheetSkipped(Head(bundle)) THEN <<>> ELSE SheetFrame(Head(bundle)))
         \o load_data(Tail(bundle))

-----------------------------------------------------------------------------
(* Python ordering of cell values, used by sorted() and sort_index() *)

\* the characters of the model in code-point order
CodePoints == <<" ","%","-","0","1","2","3","4","5","6","7","8","9",
                "A","B","C","D","E","F","G","H","I","J","K","L","M",
                "N","O","P","Q","R","S","T","U","V","W","X","Y","Z","_",
                "a","b","c","d","e","f","g","h","i","j","k","l","m",
                "n","o","p","q","r","s","t","u","v","w","x","y","z">>

ord(ch) == CHOOSE i \in 1..Len(CodePoints) : CodePoints[i] = ch

RECURSIVE StrLess(_, _)
\* str.__lt__: lexicographic by code point, a proper prefix is smaller
StrLess(a, b) ==
    IF b = <<>> THEN FALSE
    ELSE IF a = <<>> THEN TRUE
    ELSE IF Head(a) = Head(b) THEN StrLess(Tail(a), Tail(b))
    ELSE ord(Head(a)) < ord(Head(b))

\* `<` on two non-null cell values of one type
PyLess(a, b) == IF a.t = "str" THEN StrLess(a.s, b.s) ELSE a.n < b.n

\* sorted() raises TypeError when it has to compare text with a number
Sortable(values) == \A a \in values, b \in values : a.t = b.t

RECURSIVE SortedSeq(_)
\* sorted(values) for a set of distinct, mutually comparable values
SortedSeq(values) ==
    IF values = {} THEN <<>>
    ELSE LET least == CHOOSE a \in values : \A b \in values \ {a} : PyLess(a, b)
         IN  <<least>> \o SortedSeq(values \ {least})

-----------------------------------------------------------------------------
(* Sidebar filters, lines 123-152 *)

Range(seq) == {seq[i] : i \in 1..Len(seq)}

\* df["insurer"].dropna().unique(); a sheet name is never null
insurer_options(frame) == {frame[i].insurer : i \in 1..Len(frame)}

\* line 129
df_ins(frame, insurer) == SelectSeq(frame, LAMBDA r : r.insurer = insurer)

\* lines 132, 140: the values of .dropna().unique(), before sorted()
chi_loc_values(frame) == {r.chi_location : r \in Range(frame)} \ {Null}
service_values(frame) == {r.service_type : r \in Range(frame)} \ {Null}

\* ApplyFilters without the tests for an empty selection
ApplyFilters_unguarded(frame, chi_locs, services) ==
    SelectSeq(SelectSeq(frame, LAMBDA r : r.chi_location \in chi_locs),
              LAMBDA r : r.service_type \in services)

\* lines 148-152: an empty selection leaves the dimension unfiltered
ApplyFilters(frame, chi_locs, services) ==
    LET by_loc == IF chi_locs # {}
                  THEN SelectSeq(frame, LAMBDA r : r.chi_location \in chi_locs)
                  ELSE frame
    IN  IF services # {}
        THEN SelectSeq(by_loc, LAMBDA r : r.service_type \in services)
        ELSE by_loc

-----------------------------------------------------------------------------
(* KPIs and histogram, lines 164-211 *)

RECURSIVE SumDiscount(_)
SumDiscount(frame) ==
    IF frame = <<>> THEN 0 ELSE Head(frame).dicount.n + SumDiscount(Tail(frame))

\* Series.mean() as the exact fraction sum / count
Mean(frame) == [sum |-> SumDiscount(frame), count |-> Len(frame)]

\* filtered["discount_band"].dropna().unique()
band_values(frame) == {r.discount_band : r \in Range(frame)} \ {Null}

\* lines 171, 186: filtered["discount_band"].notna().any()
HasBand(frame) == \E i \in 1..Len(frame) : notna(frame[i].discount_band)

\* top_band that takes the first label of the sorted list
top_band_first(frame) ==
    LET bands == SortedSeq(band_values(frame)) IN bands[1]

\* line 173: sorted(...)[-1]
top_band(frame) ==
    LET bands == SortedSeq(band_values(frame)) IN bands[Len(bands)]

\* line 174
top_band_df(frame) ==
    SelectSeq(frame, LAMBDA r : r.discount_band = top_band(frame))

\* lines 187-193: value_counts().sort_index() as rows (band, count)
chart_data(frame) ==
    LET bands == SortedSeq(band_values(frame))
    IN  [i \in 1..Len(bands) |->
            [band  |-> bands[i],
             count |-> Len(SelectSeq(frame, LAMBDA r : r.discount_band = bands[i]))]]

RECURSIVE SumCount(_)
\* line 202: chart_data["Clinic count"].sum()
SumCount(rows) == IF rows = <<>> THEN 0 ELSE Head(rows).count + SumCount(Tail(rows))

L_Total == <<"T","o","t","a","l">>

\* chart_with_total whose Total counts every record, banded or not
chart_with_total_all(frame) ==
    chart_data(frame) \o <<[band |-> Str(L_Total), count |-> Len(frame)]>>

\* lines 203-206
chart_with_total(frame) ==
    chart_data(frame) \o <<[band |-> Str(L_Total), count |-> SumCount(chart_data(frame))]>>

-----------------------------------------------------------------------------
(* Workbooks *)

H_ChiLocation  == <<"C","h","i"," ","L","o","c","a","t","i","o","n">>
H_ServiceType  == <<"S","e","r","v","i","c","e"," ","T","y","p","e">>
H_Discount     == <<"D","i","s","c","o","u","n","t">>
H_Dicount      == <<" ","D","I","C","O","U","N","T"," ">>
H_DiscRate     == <<"D","i","s","c"," ","R","a","t","e">>
H_DiscountBand == <<"D","i","s","c","o","u","n","t"," ","B","a","n","d">>
H_Undisclosed  == <<"U","n","d","i","s","c","l","o","s","e","d">>
H_Insurer      == <<"I","n","s","u","r","e","r">>

T_X      == <<"X">>
T_Y      == <<"Y">>
T_Dental == <<"D","e","n","t","a","l">>
T_Vision == <<"V","i","s","i","o","n">>
T_Other  == <<"O","t","h","e","r">>
T_TBC    == <<"T","B","C">>
T_20     == <<"2","0">>
T_30     == <<"3","0">>
B_40_49  == <<"4","0","-","4","9">>
B_60_69  == <<"6","0","-","6","9">>
B_9pc    == <<"9","%">>
B_80pc   == <<"8","0","%">>
B_A      == <<"A">>
B_B      == <<"B">>
B_C      == <<"C">>

\* sheet names
N_Acme  == Str(<<"A","c","m","e">>)
N_Beta  == Str(<<"B","e","t","a">>)
N_Gamma == Str(<<"G","a","m","m","a">>)

Sheet(name, columns, rows) == [name |-> name, table |-> [columns |-> columns, rows |-> rows]]

\* line 10
DATA_PATH == "Doctor list_with_Dashboard.xlsx"

NoFile == "None"

\* the workbooks a user can upload (line 13), named by their content: the same
\* name is the same file, and the bundled workbook does not change on disk
Uploads == {"corrupt.xlsx", "nodisc.xlsx", "mixed.xlsx", "bands.xlsx"}

\* workbooks pd.read_excel cannot parse (line 28 raises)
Unreadable == {"corrupt.xlsx"}

\* line 28: pd.read_excel(file, sheet_name=None), sheets in workbook order
read_excel(file) ==
    CASE file = DATA_PATH ->
           << Sheet(N_Acme,
                    <<H_ChiLocation, H_ServiceType, H_Discount, H_DiscountBand>>,
                    << <<Str(T_X), Str(T_Dental), Num(50), Str(B_40_49)>>,
                       <<Str(T_Y), Str(T_Vision), Num(70), Str(B_60_69)>> >>),
              Sheet(N_Beta,
                    <<H_Dicount, H_ChiLocation, H_Insurer>>,
                    << <<Num(20), Null, Str(T_Other)>>,
                       <<Str(T_TBC), Str(T_X), Null>> >>) >>
      [] file = "bands.xlsx" ->
           << Sheet(N_Acme,
                    <<H_DiscRate, H_DiscountBand>>,
                    << <<Str(T_30), Str(B_9pc)>>,
                       <<Num(10), Str(B_80pc)>>,
                       <<Num(20), Null>> >>) >>
      [] file = "nodisc.xlsx" ->
           << Sheet(N_Gamma,
                    <<H_Insurer, H_ChiLocation>>,
                    << <<Str(T_Other), Str(T_X)>> >>) >>
      [] file = "mixed.xlsx" ->
           << Sheet(N_Gamma,
                    <<H_ChiLocation, H_Discount>>,
                    << <<Str(T_X), Num(10)>>,
                       <<Num(5), Num(20)>> >>) >>
      [] OTHER -> <<>>

-----------------------------------------------------------------------------
(* The script, one action per block *)

Widget(w, what, label, value) == [w |-> w, what |-> what, label |-> label, value |-> value]

\* An exception no try block catches ends the run with the traceback shown
Uncaught(what) == Widget("exception", what, Null, <<>>)

\* CacheKey that ignores the argument: one memo entry for every input
CacheKey_shared(file) == "load_data"

\* st.cache_data keys a call of load_data by its argument
CacheKey(file) == file

\* lines 107-110: the upload when there is one, else the bundled workbook
CurrentFile == IF uploaded_file # NoFile THEN uploaded_file ELSE DATA_PATH

\* lines 106-113: load through the memo; an exception is reported and stops
Load ==
    /\ pc = "load"
    /\ trace' = Append(trace, "load")
    /\ IF CacheKey(CurrentFile) \in DOMAIN cache
       THEN /\ df' = cache[CacheKey(CurrentFile)]
            /\ pc' = "check_df"
            /\ UNCHANGED <<cache, sheets_dict, shown>>
       ELSE IF CurrentFile \in Unreadable
       THEN /\ shown' = Append(shown, Widget("error", "load_failed", Null, <<>>))
            /\ pc' = "end"
            /\ UNCHANGED <<cache, sheets_dict, df>>
       ELSE /\ sheets_dict' = read_excel(CurrentFile)
            /\ df' = load_data(sheets_dict')
            /\ cache' = Put(cache, CacheKey(CurrentFile), df')
            /\ pc' = "check_df"
            /\ UNCHANGED shown
    /\ UNCHANGED <<uploaded_file, selected_insurer, selected_chi_locs,
                   selected_services, filtered, raw_cols, col_map>>

\* lines 115-117
CheckDf ==
    /\ pc = "check_df"
    /\ trace' = Append(trace, "check_df")
    /\ IF df = <<>>
       THEN /\ shown' = Append(shown, Widget("error", "no_valid_data", Null, <<>>))
            /\ pc' = "end"
       ELSE /\ pc' = "filters"
            /\ UNCHANGED shown
    /\ UNCHANGED <<uploaded_file, cache, sheets_dict, df, selected_insurer,
                   selected_chi_locs, selected_services, filtered, raw_cols, col_map>>

\* lines 123-152: the three widgets and the filtered frame.  sorted() on the
\* option values raises when a column mixes text and numbers.
Filters ==
    /\ pc = "filters"
    /\ trace' = Append(trace, "filters")
    /\ \E insurer \in insurer_options(df) :
        LET rows == df_ins(df, insurer) IN
        /\ selected_insurer' = insurer
        /\ IF ~Sortable(chi_loc_values(rows))
           THEN /\ shown' = Append(shown, Uncaught("TypeError"))
                /\ pc' = "end"
                /\ UNCHANGED <<selected_chi_locs, selected_services, filtered>>
           ELSE \E chi_locs \in SUBSET chi_loc_values(rows) :
                /\ selected_chi_locs' = chi_locs
                /\ IF ~Sortable(service_values(rows))
                   THEN /\ shown' = Append(shown, Uncaught("TypeError"))
                        /\ pc' = "end"
                        /\ UNCHANGED <<selected_services, filtered>>
                   ELSE \E services \in SUBSET service_values(rows) :
                        /\ selected_services' = services
                        /\ filtered' = ApplyFilters(rows, chi_locs, services)
                        /\ pc' = "check_filtered"
                        /\ UNCHANGED shown
    /\ UNCHANGED <<uploaded_file, cache, sheets_dict, df, raw_cols, col_map>>

\* lines 154-156
CheckFiltered ==
    /\ pc = "check_filtered"
    /\ trace' = Append(trace, "check_filtered")
    /\ IF filtered = <<>>
       THEN /\ shown' = Append(shown, Widget("warning", "no_records", Null, <<>>))
            /\ pc' = "end"
       ELSE /\ pc' = "kpis"
            /\ UNCHANGED shown
    /\ UNCHANGED <<uploaded_file, cache, sheets_dict, df, selected_insurer,
                   selected_chi_locs, selected_services, filtered, raw_cols, col_map>>

\* lines 159-181: the average, then the top band's average or "N/A"
Kpis ==
    /\ pc = "kpis"
    /\ trace' = Append(trace, "kpis")
    /\ LET kpi1 == Widget("metric", "average", Null, Mean(filtered)) IN
       IF HasBand(filtered)
       THEN IF ~Sortable(band_values(filtered))
            THEN /\ shown' = shown \o <<kpi1, Uncaught("TypeError")>>
                 /\ pc' = "end"
            ELSE /\ shown' = shown \o
                       <<kpi1, Widget("metric", "top_band", top_band(filtered),
                                      Mean(top_band_df(filtered)))>>
                 /\ pc' = "chart"
       ELSE /\ shown' = shown \o <<kpi1, Widget("metric", "top_band", Null, "N/A")>>
            /\ pc' = "chart"
    /\ UNCHANGED <<uploaded_file, cache, sheets_dict, df, selected_insurer,
                   selected_chi_locs, selected_services, filtered, raw_cols, col_map>>

\* lines 184-211: the bar chart and the table with its Total row, or the note
Chart ==
    /\ pc = "chart"
    /\ trace' = Append(trace, "chart")
    /\ IF HasBand(filtered)
       THEN IF ~Sortable(band_values(filtered))
            THEN shown' = Append(shown, Uncaught("TypeError"))
            ELSE shown' = shown \o
                     <<Widget("bar_chart", "band_histogram", Null, chart_data(filtered)),
                       Widget("dataframe", "band_histogram", Null, chart_with_total(filtered))>>
       ELSE shown' = Append(shown, Widget("info", "no_band_data", Null, <<>>))
    /\ pc' = "end"
    /\ UNCHANGED <<uploaded_file, cache, sheets_dict, df, selected_insurer,
                   selected_chi_locs, selected_services, filtered, raw_cols, col_map>>

\* A widget interaction reruns the script from the top; the upload may have
\* changed (line 13), the memo of load_data survives the rerun
Rerun ==
    /\ pc = "end"
    /\ uploaded_file' \in Uploads \cup {NoFile}
    /\ pc' = "load"
    /\ df' = <<>>
    /\ filtered' = <<>>
    /\ shown' = <<>>
    /\ trace' = <<>>
    /\ selected_insurer' = Null
    /\ selected_chi_locs' = {}
    /\ selected_services' = {}
    /\ UNCHANGED <<cache, sheets_dict, raw_cols, col_map>>

Init ==
    /\ pc = "load"
    /\ uploaded_file = NoFile
    /\ cache = EmptyMap
    /\ sheets_dict = <<>>
    /\ df = <<>>
    /\ selected_insurer = Null
    /\ selected_chi_locs = {}
    /\ selected_services = {}
    /\ filtered = <<>>
    /\ shown = <<>>
    /\ trace = <<>>
    /\ raw_cols = <<>>
    /\ col_map = EmptyMap

Next == Load \/ CheckDf \/ Filters \/ CheckFiltered \/ Kpis \/ Chart \/ Rerun

Spec == Init /\ [][Next]_vars

-----------------------------------------------------------------------------
(* load_data alone, over a family of workbooks *)

\* total number of data rows in a workbook
MaxRows == 2

SheetNames == {N_Acme, N_Beta}

\* header rows of the sheets: an insurer-like column beside the discount, the
\* legacy spelling alone, no discount column, a band column alone, and a rate
\* column alone
SheetHeaders == { <<H_Insurer, H_Discount>>,
                  <<H_Dicount>>,
                  <<H_ChiLocation>>,
                  <<H_DiscountBand>>,
                  <<H_DiscRate>> }

LoadCells == {Null, Num(10), Str(T_20), Str(T_X)}

\* the tables with r rows over the header rows above
TablesWithRows(r) ==
    UNION { {[columns |-> h, rows |-> rs] :
                rs \in [1..r -> [1..Len(h) -> LoadCells]]} : h \in SheetHeaders }

\* workbooks of one sheet with r rows
OneSheet(r) ==
    { <<[name |-> n, table |-> t]>> : n \in SheetNames, t \in TablesWithRows(r) }

\* workbooks of two sheets with distinct names, r1 and r2 rows
TwoSheets(r1, r2) ==
    { <<[name |-> p[1], table |-> t1], [name |-> p[2], table |-> t2]>> :
        p \in {q \in SheetNames \X SheetNames : q[1] # q[2]},
        t1 \in TablesWithRows(r1), t2 \in TablesWithRows(r2) }

\* the variables a specification does not use
IdleScript ==
    /\ uploaded_file = NoFile
    /\ cache = EmptyMap
    /\ selected_insurer = Null
    /\ selected_chi_locs = {}
    /\ selected_services = {}
    /\ filtered = <<>>
    /\ shown = <<>>
    /\ trace = <<>>

InitLoad ==
    /\ pc = "call"
    /\ \E r1 \in 0..MaxRows :
          \/ sheets_dict \in OneSheet(r1)
          \/ \E r2 \in 0..(MaxRows - r1) : sheets_dict \in TwoSheets(r1, r2)
    /\ df = <<>>
    /\ raw_cols = <<>>
    /\ col_map = EmptyMap
    /\ IdleScript

\* lines 20-102 applied to the workbook, handing the frame to line 115
CallLoadData ==
    /\ pc = "call"
    /\ df' = load_data(sheets_dict)
    /\ pc' = "check_df"
    /\ UNCHANGED <<uploaded_file, cache, sheets_dict, selected_insurer,
                   selected_chi_locs, selected_services, filtered, shown, trace,
                   raw_cols, col_map>>

NextLoad == CallLoadData \/ CheckDf

SpecLoad == InitLoad /\ [][NextLoad]_vars

-----------------------------------------------------------------------------
(* Header reconciliation alone, over header rows in every column order *)

\* number of columns of a sheet
MaxCols == 3

\* raw headers in mixed case and with padding; their normal forms are pairwise
\* distinct and only "dicount" is already a canonical field name, so a renamed
\* header row never holds the same column name twice
HeaderVocabulary == {H_Dicount, H_Discount, H_DiscRate, H_Undisclosed,
                     H_DiscountBand, H_ChiLocation, H_ServiceType, H_Insurer}

\* pd.read_excel never returns two columns with the same header
HeaderRows(n) ==
    { h \in [1..n -> HeaderVocabulary] :
        \A i \in 1..n, j \in 1..n : i # j => h[i] # h[j] }

InitRecon ==
    /\ pc = "reconcile"
    /\ \E n \in 1..MaxCols : raw_cols \in HeaderRows(n)
    /\ col_map = EmptyMap
    /\ sheets_dict = <<>>
    /\ df = <<>>
    /\ IdleScript

\* lines 36-72 on one header row
Reconcile ==
    /\ pc = "reconcile"
    /\ col_map' = BuildColMap(NormalizeColumns(raw_cols))
    /\ pc' = "reconciled"
    /\ UNCHANGED <<uploaded_file, cache, sheets_dict, df, selected_insurer,
                   selected_chi_locs, selected_services, filtered, shown, trace,
                   raw_cols>>

NextRecon == Reconcile

SpecRecon == InitRecon /\ [][NextRecon]_vars

-----------------------------------------------------------------------------
(* The filter and aggregation blocks, over a family of loaded frames *)

\* records of a frame that exercises the filters
MaxFilterRecords == 2

\* records of a frame that exercises the band statistics
MaxBandRecords == 3

Record(insurer, loc, svc, discount, band) ==
    [chi_location |-> loc, service_type |-> svc, dicount |-> Num(discount),
     discount_band |-> band, insurer |-> insurer]

FilterPool ==
    { Record(i, l, s, 10, Null) :
        i \in {N_Acme, N_Beta}, l \in {Null, Str(T_X), Str(T_Y)},
        s \in {Null, Str(T_Dental)} }

BandPool ==
    { Record(N_Acme, Null, Null, d, b) :
        d \in {10, 20, 30},
        b \in {Null, Str(B_A), Str(B_B), Str(B_C), Str(B_9pc), Str(B_80pc)} }

\* what load_data can hand to line 123: non-empty frames
FilterFrames(n) == [1..n -> FilterPool]
BandFrames(n)   == [1..n -> BandPool]

InitView ==
    /\ pc = "filters"
    /\ \/ \E n \in 1..MaxFilterRecords : df \in FilterFrames(n)
       \/ \E n \in 1..MaxBandRecords : df \in BandFrames(n)
    /\ uploaded_file = NoFile
    /\ cache = EmptyMap
    /\ sheets_dict = <<>>
    /\ selected_insurer = Null
    /\ selected_chi_locs = {}
    /\ selected_services = {}
    /\ filtered = <<>>
    /\ shown = <<>>
    /\ trace = <<"load", "check_df">>
    /\ raw_cols = <<>>
    /\ col_map = EmptyMap

NextView == Filters \/ CheckFiltered \/ Kpis \/ Chart

SpecView == InitView /\ [][NextView]_vars

-----------------------------------------------------------------------------
(* Properties of the header reconciliation (SpecRecon) *)

lower_cols == NormalizeColumns(raw_cols)

\* the header the rename map sends to the canonical discount field
DiscountSources == {h \in DOMAIN col_map : col_map[h] = K_dicount}

\* position i holds the first header, in column order, containing "disc"
FirstWithDisc(i) ==
    /\ Contains(lower_cols[i], K_disc)
    /\ \A j \in 1..(i - 1) : ~Contains(lower_cols[j], K_disc)

\* C8: when a normalized header equals "dicount" or "discount" the discount
\* field is taken from that exact header ("dicount" when both exist), whatever
\* the column order and whatever other headers contain "disc"; without an exact
\* header the discount field, when it has a source, is the first header in
\* column order that contains "disc".
C8_ExactHeaderPreferred ==
    pc = "reconciled" =>
        /\ InCols(K_dicount, lower_cols) => DiscountSources = {K_dicount}
        /\ (~InCols(K_dicount, lower_cols) /\ InCols(K_discount, lower_cols))
              => DiscountSources = {K_discount}
        /\ (~InCols(K_dicount, lower_cols) /\ ~InCols(K_discount, lower_cols))
              => \A h \in DiscountSources :
                    \E i \in 1..Len(lower_cols) : lower_cols[i] = h /\ FirstWithDisc(i)

\* an exact "discount" header stands after another header containing "disc"
\* and is the one mapped to the discount field
C8_Witness ==
    /\ pc = "reconciled"
    /\ Len(lower_cols) >= 2
    /\ Contains(lower_cols[1], K_disc)
    /\ lower_cols[1] # K_discount
    /\ InCols(K_discount, lower_cols)
    /\ DiscountSources = {K_discount}

-----------------------------------------------------------------------------
(* Properties of load_data (SpecLoad) *)

Returned == pc = "check_df"

SheetCols(sheet) == NormalizeColumns(sheet.table.columns)

\* the rows of the returned frame tagged with one sheet's name
RowsTagged(name) == SelectSeq(df, LAMBDA r : r.insurer = name)

\* position of a sheet name in the workbook, 0 when it names no sheet
SheetPos(name) ==
    IF \E k \in 1..Len(sheets_dict) : sheets_dict[k].name = name
    THEN CHOOSE k \in 1..Len(sheets_dict) : sheets_dict[k].name = name
    ELSE 0

\* a cell that reads as a number: a number, or text made of digits
ReadsAsNumber(cell) ==
    \/ cell.t = "num"
    \/ cell.t = "str" /\ cell.s # <<>>
         /\ \A i \in 1..Len(cell.s) : cell.s[i] \in DigitSet

\* position of the discount field in a renamed header row, 0 when it has none
DiscountColumn(renamed) ==
    IF \E i \in 1..Len(renamed) : renamed[i] = K_dicount
    THEN CHOOSE i \in 1..Len(renamed) : renamed[i] = K_dicount
    ELSE 0

\* the sheet contributes no frame: it is empty or has no discount field
Dropped(sheet, col) == IsEmptyFrame(sheet.table) \/ col = 0

\* C1: every record load_data returns has a non-null numeric discount; a row
\* whose discount cell is missing or does not read as a number is not in the
\* output, whichever sheet it came from.
C1_DiscountAlwaysNumeric ==
    Returned =>
        /\ \A i \in 1..Len(df) : df[i].dicount.t = "num"
        /\ \A k \in 1..Len(sheets_dict) :
              LET sheet == sheets_dict[k]
                  col   == DiscountColumn(RenamedColumns(sheet.table))
              IN  ~Dropped(sheet, col) =>
                     Len(RowsTagged(sheet.name)) =
                        Cardinality({j \in 1..Len(sheet.table.rows) :
                                        ReadsAsNumber(sheet.table.rows[j][col])})

\* a kept sheet lost a row with an empty or non-numeric discount cell and kept another
C1_Witness ==
    /\ Returned
    /\ df # <<>>
    /\ \E k \in 1..Len(sheets_dict) :
          LET sheet == sheets_dict[k]
              col   == DiscountColumn(RenamedColumns(sheet.table))
          IN  /\ ~Dropped(sheet, col)
              /\ \E j \in 1..Len(sheet.table.rows) : ~ReadsAsNumber(sheet.table.rows[j][col])
              /\ RowsTagged(sheet.name) # <<>>

RECURSIVE NumericDiscounts(_, _)
\* the numbers of a sheet's discount column, in row order
NumericDiscounts(rows, col) ==
    IF rows = <<>> THEN <<>>
    ELSE (IF ReadsAsNumber(Head(rows)[col]) THEN <<to_numeric(Head(rows)[col]).n>> ELSE <<>>)
         \o NumericDiscounts(Tail(rows), col)

\* C2: the returned frame is the concatenation, in workbook order, of the
\* surviving rows of the kept sheets, each row tagged with the name of its own
\* sheet and never with a cell value, also when the sheet has an insurer column.
C2_ConcatenatedAndTagged ==
    Returned =>
        /\ \A i \in 1..Len(df) : SheetPos(df[i].insurer) # 0
        /\ \A i \in 1..Len(df), j \in 1..Len(df) :
              i < j => SheetPos(df[i].insurer) <= SheetPos(df[j].insurer)
        /\ \A k \in 1..Len(sheets_dict) :
              LET sheet == sheets_dict[k]
                  col   == DiscountColumn(RenamedColumns(sheet.table))
                  got   == RowsTagged(sheet.name)
              IN  IF Dropped(sheet, col) THEN got = <<>>
                  ELSE [i \in 1..Len(got) |-> got[i].dicount.n]
                         = NumericDiscounts(sheet.table.rows, col)

\* two kept sheets both contribute rows, one of them with a filled insurer column
C2_Witness ==
    /\ Returned
    /\ Len(sheets_dict) = 2
    /\ RowsTagged(sheets_dict[1].name) # <<>>
    /\ RowsTagged(sheets_dict[2].name) # <<>>
    /\ \E k \in 1..2 :
          /\ sheets_dict[k].table.columns[1] = H_Insurer
          /\ sheets_dict[k].table.rows[1][1] = Str(T_X)

\* no normalized header contains "disc"
NoDiscHeader(sheet) ==
    \A i \in 1..Len(sheet.table.columns) : ~Contains(SheetCols(sheet)[i], K_disc)

\* no normalized header equals "dicount" and none contains "disc"
NoDiscountHeader(sheet) ==
    NoDiscHeader(sheet) /\ ~InCols(K_dicount, SheetCols(sheet))

\* the workbook without its k-th sheet
WithoutSheet(k) ==
    SubSeq(sheets_dict, 1, k - 1) \o SubSeq(sheets_dict, k + 1, Len(sheets_dict))

EmptyReported ==
    pc = "end" /\ shown = <<Widget("error", "no_valid_data", Null, <<>>)>>

\* C3 as stated: a sheet with no header containing "disc" contributes no
\* record, the other sheets still contribute theirs, and a load without any
\* surviving row returns an empty frame reported as 'no valid data'.
C3_AsStated ==
    /\ Returned =>
          \A k \in 1..Len(sheets_dict) :
             NoDiscHeader(sheets_dict[k]) =>
                /\ RowsTagged(sheets_dict[k].name) = <<>>
                /\ df = load_data(WithoutSheet(k))
    /\ pc = "end" => (df = <<>> /\ EmptyReported)
    /\ pc = "filters" => (df # <<>> /\ shown = <<>>)

\* C3 amended: a sheet with no header equal to "dicount" and none containing
\* "disc" contributes no record and does not fail the load: the other sheets
\* still contribute their rows, and a load in which no sheet yields a surviving
\* row returns an empty frame, reported by the caller as 'no valid data'.
C3_NoDiscountHeaderContributesNothing ==
    /\ Returned =>
          \A k \in 1..Len(sheets_dict) :
             NoDiscountHeader(sheets_dict[k]) =>
                /\ RowsTagged(sheets_dict[k].name) = <<>>
                /\ df = load_data(WithoutSheet(k))
    /\ (Returned /\ \A k \in 1..Len(sheets_dict) :
                       LET sheet == sheets_dict[k]
                           col   == DiscountColumn(RenamedColumns(sheet.table))
                       IN  Dropped(sheet, col)
                           \/ \A j \in 1..Len(sheet.table.rows) :
                                  ~ReadsAsNumber(sheet.table.rows[j][col]))
          => df = <<>>
    /\ pc = "end" => (df = <<>> /\ EmptyReported)
    /\ pc = "filters" => (df # <<>> /\ shown = <<>>)

\* a sheet without discount header sits beside a sheet that contributes a row
C3_Witness ==
    /\ Returned
    /\ Len(sheets_dict) = 2
    /\ NoDiscountHeader(sheets_dict[1])
    /\ sheets_dict[1].table.rows # <<>>
    /\ RowsTagged(sheets_dict[2].name) # <<>>

\* C10 as stated: every non-empty sheet in which the discount rule matches a
\* header is kept, and every row whose cell under that header is numeric is in
\* the output, also when the header satisfies the discount_band rule as well.
C10_AsStated ==
    Returned =>
        \A k \in 1..Len(sheets_dict) :
            LET sheet   == sheets_dict[k]
                cols    == SheetCols(sheet)
                matched == disc_col(cols)
                col     == FirstIndex(cols, matched)
            IN  (~IsEmptyFrame(sheet.table) /\ Truthy(matched)) =>
                   /\ ~SheetSkipped(sheet)
                   /\ Len(RowsTagged(sheet.name)) =
                         Cardinality({j \in 1..Len(sheet.table.rows) :
                                         ReadsAsNumber(sheet.table.rows[j][col])})

-----------------------------------------------------------------------------
(* Properties of the filter and aggregation blocks (SpecView) *)

Executed(block) == \E i \in 1..Len(trace) : trace[i] = block

\* the filter block ran to its end in this run
FilterApplied == pc \in {"check_filtered", "kpis", "chart"} \/ Executed("check_filtered")

\* C4: a record is kept if and only if its insurer is the selected one and,
\* for each of chi_location and service_type, the accepted set is empty or
\* holds the record's value; a null value is excluded by a non-empty set.
C4_FilterSemantics ==
    FilterApplied =>
        /\ filtered = SelectSeq(df, LAMBDA r :
              /\ r.insurer = selected_insurer
              /\ (selected_chi_locs = {} \/ r.chi_location \in selected_chi_locs)
              /\ (selected_services = {} \/ r.service_type \in selected_services))
        /\ selected_chi_locs # {} =>
              \A i \in 1..Len(filtered) : filtered[i].chi_location # Null
        /\ selected_services # {} =>
              \A i \in 1..Len(filtered) : filtered[i].service_type # Null

\* an empty service selection beside a location selection that drops a record
\* of the selected insurer with no location
C4_Witness ==
    /\ FilterApplied
    /\ selected_chi_locs # {}
    /\ selected_services = {}
    /\ filtered # <<>>
    /\ \E i \in 1..Len(df) :
          df[i].insurer = selected_insurer /\ df[i].chi_location = Null
    /\ \E i \in 1..Len(filtered) : filtered[i].service_type = Null

\* the second metric of the run, once the KPI block has written it
KpisShown == Executed("kpis") /\ Len(shown) >= 2 /\ shown[2].what = "top_band"

RECURSIVE SumAt(_, _)
\* sum of the discounts at a set of positions of a frame
SumAt(frame, positions) ==
    IF positions = {} THEN 0
    ELSE LET i == CHOOSE i \in positions : TRUE
         IN  frame[i].dicount.n + SumAt(frame, positions \ {i})

\* C5: with a non-null band among the filtered records the top band is the
\* lexicographically greatest distinct non-null label and the value shown is
\* the mean discount of exactly the records carrying it; without any non-null
\* band the metric is shown as unavailable.
C5_TopBandAverage ==
    KpisShown =>
        LET kpi2    == shown[2]
            carried == {i \in 1..Len(filtered) : filtered[i].discount_band = kpi2.label}
        IN  IF \E i \in 1..Len(filtered) : filtered[i].discount_band # Null
            THEN /\ kpi2.label # Null
                 /\ carried # {}
                 /\ \A i \in 1..Len(filtered) :
                       LET b == filtered[i].discount_band
                       IN  b # Null => (b = kpi2.label \/ StrLess(b.s, kpi2.label.s))
                 /\ kpi2.value = [sum |-> SumAt(filtered, carried), count |-> Cardinality(carried)]
            ELSE kpi2.label = Null /\ kpi2.value = "N/A"

\* bands A, B, C with discounts 10, 20, 30: band C is shown with mean 30
C5_Witness ==
    /\ KpisShown
    /\ Len(filtered) = 3
    /\ \E i \in 1..3 : filtered[i].discount_band = Str(B_A) /\ filtered[i].dicount.n = 10
    /\ \E i \in 1..3 : filtered[i].discount_band = Str(B_B) /\ filtered[i].dicount.n = 20
    /\ \E i \in 1..3 : filtered[i].discount_band = Str(B_C) /\ filtered[i].dicount.n = 30
    /\ shown[2].label = Str(B_C)
    /\ shown[2].value = [sum |-> 30, count |-> 1]

ChartShown == Executed("chart")

RECURSIVE SumCounts(_, _)
\* sum of the counts of the first n rows of a table
SumCounts(rows, n) == IF n = 0 THEN 0 ELSE rows[n].count + SumCounts(rows, n - 1)

\* C6: with a non-null band among the filtered records the table has one row
\* per distinct non-null label, in ascending label order, counting the records
\* with that label, and a final "Total" row whose count is the sum of the other
\* counts, the number of records with a band; without any non-null band the
\* note 'no band data' is shown instead.
C6_HistogramAndTotal ==
    ChartShown =>
        LET last == shown[Len(shown)]
        IN  IF \E i \in 1..Len(filtered) : filtered[i].discount_band # Null
            THEN /\ last.w = "dataframe"
                 /\ LET rows == last.value
                        n    == Len(rows) - 1
                    IN  /\ n >= 1
                        /\ rows[n + 1].band = Str(L_Total)
                        /\ rows[n + 1].count = SumCounts(rows, n)
                        /\ rows[n + 1].count =
                              Cardinality({i \in 1..Len(filtered) : filtered[i].discount_band # Null})
                        /\ {rows[k].band : k \in 1..n} =
                              {filtered[i].discount_band : i \in 1..Len(filtered)} \ {Null}
                        /\ \A k \in 1..n :
                              rows[k].count =
                                 Cardinality({i \in 1..Len(filtered) :
                                                 filtered[i].discount_band = rows[k].band})
                        /\ \A j \in 1..n, k \in 1..n :
                              j < k => StrLess(rows[j].band.s, rows[k].band.s)
            ELSE last.w = "info" /\ last.what = "no_band_data"

\* two labels out of order in the data, one record without band: the table
\* lists the labels ascending and the Total leaves the bandless record out
C6_Witness ==
    /\ ChartShown
    /\ Len(filtered) = 3
    /\ filtered[1].discount_band = Str(B_9pc)
    /\ filtered[2].discount_band = Null
    /\ filtered[3].discount_band = Str(B_80pc)
    /\ shown[Len(shown)].value =
          << [band |-> Str(B_80pc), count |-> 1],
             [band |-> Str(B_9pc), count |-> 1],
             [band |-> Str(L_Total), count |-> 2] >>

-----------------------------------------------------------------------------
(* Properties of the whole script (Spec) *)

Ended == pc = "end"

LastShown == shown[Len(shown)]

LoadFailure  == Ended /\ shown # <<>> /\ LastShown.what = "load_failed"
EmptyDataset == Ended /\ shown # <<>> /\ LastShown.what = "no_valid_data"
EmptyFilter  == Ended /\ shown # <<>> /\ LastShown.what = "no_records"
Aggregates   == Ended /\ shown # <<>> /\ LastShown.w \in {"dataframe", "info"}

\* C7 as stated: every run ends in exactly one of load failure, empty after
\* reconciliation, empty after filter, or aggregates produced; the three
\* failures are shown as three distinct conditions, a load failure leaves no
\* collection, no later block runs after a failure, and the two soft
\* conditions are found by testing a result for emptiness.
C7_AsStated ==
    Ended =>
        /\ LoadFailure \/ EmptyDataset \/ EmptyFilter \/ Aggregates
        /\ LoadFailure =>
              /\ trace = <<"load">>
              /\ df = <<>>
              /\ CacheKey(CurrentFile) \notin DOMAIN cache
              /\ shown = <<Widget("error", "load_failed", Null, <<>>)>>
        /\ EmptyDataset =>
              /\ trace = <<"load", "check_df">>
              /\ df = <<>>
              /\ shown = <<Widget("error", "no_valid_data", Null, <<>>)>>
        /\ EmptyFilter =>
              /\ trace = <<"load", "check_df", "filters", "check_filtered">>
              /\ filtered = <<>>
              /\ shown = <<Widget("warning", "no_records", Null, <<>>)>>
        /\ Aggregates =>
              trace = <<"load", "check_df", "filters", "check_filtered", "kpis", "chart">>

\* the run got a frame from the load block
Loaded == trace # <<>> /\ ~LoadFailure

\* C9: whatever was loaded, filtered and aggregated before, the frame a load
\* returns is the fresh normalization of the current input's workbook alone,
\* and every memoised frame is still the fresh normalization of its own input.
C9_LoadIsFresh ==
    /\ Loaded => df = load_data(read_excel(CurrentFile))
    /\ \A file \in Uploads \cup {DATA_PATH} :
          CacheKey(file) \in DOMAIN cache =>
             cache[CacheKey(file)] = load_data(read_excel(file))

\* a frame served from the memo after another workbook was read in between,
\* for an input whose sheet name also occurs in that other workbook
C9_Witness ==
    /\ pc = "check_df"
    /\ CurrentFile = DATA_PATH
    /\ sheets_dict = read_excel("bands.xlsx")
    /\ CacheKey("mixed.xlsx") \in DOMAIN cache
    /\ Len(df) = 3
    /\ \A i \in 1..Len(df) : df[i].discount_band \notin {Str(B_9pc), Str(B_80pc)}

====
